---- MODULE Spec2Model ----
(***************************************************************************)
(* Echo-Sight dashboard (frontend/src/pages/dashboard-page.tsx): the       *)
(* telemetry session over the WebSocket, the payload normalizer, the       *)
(* bounded event log and the one-shot hardware actions.                    *)
(*                                                                         *)
(* JavaScript values are records tagged by k (the typeof / JSON kind).     *)
(* A number is i + f/10 with i its floor and f one decimal digit, or NaN.  *)
(* Strings are TLA+ strings.                                               *)
(***************************************************************************)
EXTENDS Integers, Sequences, FiniteSets, TLC

(***************************************************************************)
(* JavaScript values                                                       *)
(***************************************************************************)
Undefined == [k |-> "undefined"]
Null == [k |-> "null"]
NaN == [k |-> "number", nan |-> TRUE, int |-> 0, frac |-> 0]
Num(i, f) == [k |-> "number", nan |-> FALSE, int |-> i, frac |-> f]
IntNum(i) == Num(i, 0)
Str(s) == [k |-> "string", s |-> s]
Bool(b) == [k |-> "boolean", b |-> b]
Arr(a) == [k |-> "array", a |-> a]

\* An expression either returns a value or throws an Error with a message.
Returned(v) == [throws |-> FALSE, value |-> v]
Thrown(msg) == [throws |-> TRUE, isError |-> TRUE, message |-> msg]

IsInteger(x) == x.k = "number" /\ ~x.nan /\ x.frac = 0

\* a < b on numbers that are not NaN
Less(a, b) == a.int < b.int \/ (a.int = b.int /\ a.frac < b.frac)

\* Math.round: the nearest integer, halves towards +Infinity; NaN stays NaN
MathRound(x) == IF x.nan THEN NaN ELSE IF x.frac >= 5 THEN IntNum(x.int + 1) ELSE IntNum(x.int)

\* Math.min / Math.max: NaN if either argument is NaN
MathMin(a, b) == IF a.nan \/ b.nan THEN NaN ELSE IF Less(b, a) THEN b ELSE a

MathMax(a, b) == IF a.nan \/ b.nan THEN NaN ELSE IF Less(a, b) THEN b ELSE a

\* JavaScript truthiness
Truthy(v) ==
  CASE v.k = "undefined" -> FALSE
    [] v.k = "null" -> FALSE
    [] v.k = "boolean" -> v.b
    [] v.k = "number" -> ~v.nan /\ ~(v.int = 0 /\ v.frac = 0)
    [] v.k = "string" -> v.s # ""
    [] OTHER -> TRUE

\* property read obj.field: a missing property reads as undefined
Get(obj, field) ==
  IF obj.k = "object" /\ field \in DOMAIN obj THEN obj[field] ELSE Undefined

\* raw.length
LengthOf(raw) ==
  CASE raw.k = "array" -> IntNum(Len(raw.a))
    [] raw.k = "string" -> IntNum(Len(raw.s))
    [] OTHER -> Get(raw, "length")

IsSpace(c) == c = " "

RECURSIVE TrimStart(_)
TrimStart(s) ==
  IF Len(s) > 0 /\ IsSpace(SubSeq(s, 1, 1)) THEN TrimStart(SubSeq(s, 2, Len(s))) ELSE s

RECURSIVE TrimEnd(_)
TrimEnd(s) ==
  IF Len(s) > 0 /\ IsSpace(SubSeq(s, Len(s), Len(s)))
  THEN TrimEnd(SubSeq(s, 1, Len(s) - 1))
  ELSE s

\* String.prototype.trim
trim(s) == TrimEnd(TrimStart(s))

UpperLetters == "ABCDEFGHIJKLMNOPQRSTUVWXYZ"
LowerLetters == "abcdefghijklmnopqrstuvwxyz"

LowerChar(c) ==
  IF \E i \in 1..Len(UpperLetters) : SubSeq(UpperLetters, i, i) = c
  THEN LET i == CHOOSE j \in 1..Len(UpperLetters) : SubSeq(UpperLetters, j, j) = c
       IN SubSeq(LowerLetters, i, i)
  ELSE c

RECURSIVE toLowerCase(_)
\* String.prototype.toLowerCase
toLowerCase(s) ==
  IF Len(s) = 0 THEN "" ELSE LowerChar(SubSeq(s, 1, 1)) \o toLowerCase(SubSeq(s, 2, Len(s)))

Digits == "0123456789"

IsDigit(c) == \E i \in 1..Len(Digits) : SubSeq(Digits, i, i) = c

DigitValue(c) == (CHOOSE i \in 1..Len(Digits) : SubSeq(Digits, i, i) = c) - 1

RECURSIVE AllDigits(_)
AllDigits(s) ==
  Len(s) = 0 \/ (IsDigit(SubSeq(s, 1, 1)) /\ AllDigits(SubSeq(s, 2, Len(s))))

RECURSIVE DigitsValue(_, _)
DigitsValue(s, acc) ==
  IF Len(s) = 0 THEN acc
  ELSE DigitsValue(SubSeq(s, 2, Len(s)), acc * 10 + DigitValue(SubSeq(s, 1, 1)))

\* the number a run of digits denotes, NaN for any other text
UnsignedToNumber(body, sign) ==
  IF Len(body) > 0 /\ AllDigits(body) THEN IntNum(sign * DigitsValue(body, 0)) ELSE NaN

\* the number a trimmed text denotes: blank is 0, an optionally signed run of
\* digits is that integer, any other text is NaN
TrimmedToNumber(t) ==
  IF Len(t) = 0 THEN IntNum(0)
  ELSE IF SubSeq(t, 1, 1) = "-" THEN UnsignedToNumber(SubSeq(t, 2, Len(t)), -1)
  ELSE UnsignedToNumber(t, 1)

\* Number(string)
StringToNumber(s) == TrimmedToNumber(trim(s))

\* Number(value) of a primitive or a plain object
ToNumber(v) ==
  CASE v.k = "number" -> v
    [] v.k = "null" -> IntNum(0)
    [] v.k = "boolean" -> IF v.b THEN IntNum(1) ELSE IntNum(0)
    [] v.k = "string" -> StringToNumber(v.s)
    [] OTHER -> NaN

\* `${number}` of NaN, an integer, or a positive number with one decimal
NumberToString(x) ==
  IF x.nan THEN "NaN"
  ELSE IF x.frac = 0 THEN ToString(x.int)
  ELSE ToString(x.int) \o "." \o ToString(x.frac)

(***************************************************************************)
(* dashboard-page.tsx, module level                                        *)
(***************************************************************************)
MAX_LOG_ENTRIES == 80

\* a faulty clamp: the lower limit is not applied
clamp_noFloor(value, min, max) == MathMin(max, value)

clamp(value, min, max) == MathMax(min, MathMin(max, value))

\* normalizeBox after const [ymin, xmin, ymax, xmax] = values
checkBox(values) ==
  IF values[1].nan \/ values[2].nan \/ values[3].nan \/ values[4].nan THEN Returned(Null)
  ELSE IF ~Less(values[1], values[3]) \/ ~Less(values[2], values[4]) THEN Returned(Null)
  ELSE Returned(Arr(values))

\* normalizeBox(raw): null, the clamped box, or a TypeError (raw.map is
\* missing on a value that is no array but has length 4)
normalizeBox(raw) ==
  IF ~Truthy(raw) \/ LengthOf(raw) # IntNum(4) THEN Returned(Null)
  ELSE IF raw.k # "array" THEN Thrown("raw.map is not a function")
  ELSE checkBox([i \in 1..4 |-> clamp(MathRound(ToNumber(raw.a[i])), IntNum(0), IntNum(1000))])

\* formatTime(tsSeconds): the instant that is displayed, in epoch ms, from the
\* payload's ts when it is truthy and from the clock otherwise
formatTime(tsSeconds, now) ==
  IF Truthy(tsSeconds)
  THEN LET n == ToNumber(tsSeconds)
       IN IF n.nan THEN "Invalid Date" ELSE ToString(n.int * 1000 + n.frac * 100)
  ELSE ToString(now)

\* a faulty updater: the list is not cut to MAX_LOG_ENTRIES
addLog_unsliced(current, text, tsSeconds, now, rnd) ==
  <<[id |-> now + rnd, time |-> formatTime(tsSeconds, now), text |-> text]>> \o current

\* the updater of addLog: [entry, ...current].slice(0, MAX_LOG_ENTRIES);
\* now is Date.now(), rnd is Math.floor(Math.random() * 10000)
addLog(current, text, tsSeconds, now, rnd) ==
  LET entry == [id |-> now + rnd, time |-> formatTime(tsSeconds, now), text |-> text]
      all == <<entry>> \o current
  IN SubSeq(all, 1, IF Len(all) < MAX_LOG_ENTRIES THEN Len(all) ELSE MAX_LOG_ENTRIES)

\* the arrow function of the map, after const box = normalizeBox(det.box)
toDetection(label, box) ==
  IF box.throws THEN box
  ELSE IF ~Truthy(box.value) THEN Returned(Null)
  ELSE IF Truthy(label) /\ label.k # "string" THEN Thrown("toLowerCase is not a function")
  ELSE Returned([k |-> "object",
                 label |-> toLowerCase(IF Truthy(label) THEN label.s ELSE "obstacle"),
                 box |-> box.value.a])

\* one element of rawDetections.map(...): null, a Detection, or a TypeError
\* (det is null, box has length 4 and no map, label is truthy and no string)
mapDetection(det) ==
  IF det.k \in {"null", "undefined"} THEN Thrown("Cannot read properties of null")
  ELSE toDetection(Get(det, "label"), normalizeBox(Get(det, "box")))

RECURSIVE mapDetections(_), keepDetection(_, _), putDetection(_, _)
\* rawDetections.map(...).filter(det => det !== null): the first element
\* that throws ends the whole map
mapDetections(raw) ==
  IF raw = <<>> THEN Returned(<<>>) ELSE keepDetection(mapDetection(Head(raw)), Tail(raw))

\* the mapped first element put before the mapped and filtered others
keepDetection(head, others) ==
  IF head.throws THEN head
  ELSE IF head.value = Null THEN mapDetections(others)
  ELSE putDetection([label |-> head.value.label, box |-> head.value.box], mapDetections(others))

putDetection(det, rest) == IF rest.throws THEN rest ELSE Returned(<<det>> \o rest.value)

\* value || fallback on strings
orElse(value, fallback) == IF value # "" THEN value ELSE fallback

\* a faulty nextVoice: a blank prompt is stored as it is after trimming
nextVoiceOf_noFallback(voice) ==
  IF voice.k \in {"null", "undefined"} THEN Returned("Path is clear")
  ELSE IF voice.k # "string" THEN Thrown("trim is not a function")
  ELSE Returned(trim(voice.s))

\* payload.voice_prompt?.trim() || 'Path is clear'
nextVoiceOf(voice) ==
  IF voice.k \in {"null", "undefined"} THEN Returned("Path is clear")
  ELSE IF voice.k # "string" THEN Thrown("trim is not a function")
  ELSE Returned(orElse(trim(voice.s), "Path is clear"))

\* clamp(Math.round(Number(payload.haptic_intensity ?? 0)), 0, 255)
nextHapticOf(haptic) ==
  clamp(MathRound(ToNumber(IF haptic.k \in {"null", "undefined"} THEN IntNum(0) ELSE haptic)),
        IntNum(0), IntNum(255))

\* Array.isArray(payload.detections) ? payload.detections : [], mapped and filtered
nextDetectionsOf(dets) == mapDetections(IF dets.k = "array" THEN dets.a ELSE <<>>)

\* what the setters and addLog of applyPayload are given
nextSnapshot(source, nextVoice, nextHaptic, nextDetections, ts) ==
  IF nextVoice.throws THEN nextVoice
  ELSE IF nextDetections.throws THEN nextDetections
  ELSE Returned([voicePrompt |-> nextVoice.value,
                 hapticIntensity |-> nextHaptic,
                 detections |-> nextDetections.value,
                 text |-> source \o ": " \o nextVoice.value \o " | haptic="
                          \o NumberToString(nextHaptic),
                 ts |-> ts])

\* applyPayload up to its first setter: what it is about to store and log,
\* or the TypeError it throws before storing anything
applyPayload(payload, source) ==
  IF payload.k \in {"null", "undefined"} THEN Thrown("Cannot read properties of null")
  ELSE nextSnapshot(source,
                    nextVoiceOf(Get(payload, "voice_prompt")),
                    nextHapticOf(Get(payload, "haptic_intensity")),
                    nextDetectionsOf(Get(payload, "detections")),
                    Get(payload, "ts"))

\* error instanceof Error ? error.message : fallback
errorText(error, fallback) == IF error.isError THEN error.message ELSE fallback

\* an error caught by a catch without a binding: only the catch's own text is left
Caught(result, text) == IF result.throws THEN Thrown(text) ELSE result

\* JSON.parse(event.data) / response.json(): the text is either no JSON
\* (SyntaxError) or the JSON text of a value
JSONparse(data) ==
  IF data.json THEN Returned(data.value) ELSE Thrown("Unexpected token in JSON")

\* the parsed text given to applyPayload(payload, source)
parseAndApply(parsed, source) ==
  IF parsed.throws THEN parsed ELSE applyPayload(parsed.value, source)

(***************************************************************************)
(* State                                                                   *)
(***************************************************************************)
VARIABLES
  connected,        \* useState(false)
  voicePrompt,      \* useState('Waiting for analysis')
  hapticIntensity,  \* useState(0)
  detections,       \* useState([])
  eventLog,         \* useState([]), newest first
  actionBusy,       \* useState(null): null or the token of the action in flight
  teardown,         \* the WebSocket effect's closure
  socket,           \* index into sockets of the current WebSocket, 0 for null
  reconnectTimer,   \* timer id, 0 for null
  keepaliveTimer,   \* timer id, 0 for null
  sockets,          \* every WebSocket created: readyState, pending close event, pings sent
  timeouts,         \* ids of the armed setTimeout timers
  intervals,        \* ids of the armed setInterval timers
  timerIds,         \* the last timer id the window handed out
  calls,            \* the action handlers suspended at an await
  mounted,          \* the component is mounted (its buttons exist)
  now,              \* Date.now()
  inputs,           \* how many events the environment has delivered
  random,           \* the values Math.random() is going to return, in a cycle
  delivered         \* how many message events have fired, and the data of the last one

vars == <<connected, voicePrompt, hapticIntensity, detections, eventLog, actionBusy,
          teardown, socket, reconnectTimer, keepaliveTimer, sockets, timeouts,
          intervals, timerIds, calls, mounted, now, inputs, random, delivered>>

snapshot == <<voicePrompt, hapticIntensity, detections>>
session == <<connected, teardown, socket, reconnectTimer, keepaliveTimer, sockets,
             timeouts, intervals, timerIds>>
gate == <<actionBusy, calls>>

\* bounds of the runs
MaxInputs == 3
MaxLogClock == 1
MaxNormInputs == 2
MaxExtraAppends == 2

\* Math.floor(Math.random() * 10000) is in 0..9999: the generator's seed fixes
\* the values it returns, modelled as a cycle of draws
RandomStreams == {<<0, 9999>>, <<1>>}

\* addLog(text, tsSeconds): setEventLog with the updater, which reads the clock
\* and draws the next random value
AddLog(text, tsSeconds) ==
  /\ eventLog' = addLog(eventLog, text, tsSeconds, now, Head(random))
  /\ random' = Tail(random) \o <<Head(random)>>

(***************************************************************************)
(* The WebSocket effect                                                    *)
(***************************************************************************)
NewWebSocket == [readyState |-> "CONNECTING", closeEvent |-> "none", sent |-> 0]

\* WebSocket.close(): CONNECTING or OPEN becomes CLOSING and the close event
\* follows; no effect on a socket that is CLOSING or CLOSED
closeSocket(ss, i) ==
  IF i # 0 /\ ss[i].readyState \in {"CONNECTING", "OPEN"}
  THEN [ss EXCEPT ![i].readyState = "CLOSING", ![i].closeEvent = "pending"]
  ELSE ss

\* a faulty clearTimers: the keepalive interval is left armed
clearTimers_onlyReconnect ==
  /\ timeouts' = IF reconnectTimer # 0 THEN timeouts \ {reconnectTimer} ELSE timeouts
  /\ UNCHANGED intervals

\* clearTimers
clearTimers ==
  /\ timeouts' = IF reconnectTimer # 0 THEN timeouts \ {reconnectTimer} ELSE timeouts
  /\ intervals' = IF keepaliveTimer # 0 THEN intervals \ {keepaliveTimer} ELSE intervals

\* a faulty connect: it gives up after the second socket
connect_capped ==
  IF teardown \/ Len(sockets) >= 2
  THEN UNCHANGED <<socket, sockets>>
  ELSE /\ sockets' = Append(sockets, NewWebSocket)
       /\ socket' = Len(sockets) + 1

\* connect
connect ==
  IF teardown
  THEN UNCHANGED <<socket, sockets>>
  ELSE /\ sockets' = Append(sockets, NewWebSocket)
       /\ socket' = Len(sockets) + 1

\* a faulty onopen: connected is not set
onopen_noFlag ==
  /\ AddLog("WebSocket connected", Undefined)
  /\ keepaliveTimer' = timerIds + 1
  /\ intervals' = intervals \cup {timerIds + 1}
  /\ timerIds' = timerIds + 1
  /\ UNCHANGED <<connected, snapshot, teardown, socket, reconnectTimer, timeouts>>

\* socket.onopen
onopen ==
  /\ connected' = TRUE
  /\ AddLog("WebSocket connected", Undefined)
  /\ keepaliveTimer' = timerIds + 1
  /\ intervals' = intervals \cup {timerIds + 1}
  /\ timerIds' = timerIds + 1
  /\ UNCHANGED <<snapshot, teardown, socket, reconnectTimer, timeouts>>

\* a faulty keepalive callback: it does not look at readyState
keepalive_unchecked ==
  IF socket # 0
  THEN sockets' = [sockets EXCEPT ![socket].sent = @ + 1]
  ELSE UNCHANGED sockets

\* the keepalive callback of setInterval
keepalive ==
  IF socket # 0 /\ sockets[socket].readyState = "OPEN"
  THEN sockets' = [sockets EXCEPT ![socket].sent = @ + 1]
  ELSE UNCHANGED sockets

\* faulty setters: the new detections are added to the old ones
store_merging(next) ==
  /\ voicePrompt' = next.voicePrompt
  /\ hapticIntensity' = next.hapticIntensity
  /\ detections' = detections \o next.detections
  /\ AddLog(next.text, next.ts)

\* the setters and addLog at the end of applyPayload
store(next) ==
  /\ voicePrompt' = next.voicePrompt
  /\ hapticIntensity' = next.hapticIntensity
  /\ detections' = next.detections
  /\ AddLog(next.text, next.ts)

\* a faulty catch: the failure also resets the prompt to its fallback
tryStore_partial(update, fallback) ==
  IF update.throws
  THEN /\ AddLog(errorText(update, fallback), Undefined)
       /\ voicePrompt' = "Path is clear"
       /\ UNCHANGED <<hapticIntensity, detections>>
  ELSE /\ voicePrompt' = update.value.voicePrompt
       /\ hapticIntensity' = update.value.hapticIntensity
       /\ detections' = update.value.detections
       /\ AddLog(update.value.text, update.value.ts)

\* try { ...applyPayload(payload) } catch { addLog(the text of the error) }
tryStore(update, fallback) ==
  IF update.throws
  THEN AddLog(errorText(update, fallback), Undefined) /\ UNCHANGED snapshot
  ELSE store(update.value)

\* a faulty onmessage: a message is dropped while an action holds the lock
onmessage_gated(data) ==
  IF actionBusy # Null
  THEN UNCHANGED <<snapshot, eventLog, random>>
  ELSE tryStore(Caught(parseAndApply(JSONparse(data), "vision stream"),
                       "Invalid websocket payload"), "Invalid websocket payload")

\* socket.onmessage: its catch logs one text for every error
onmessage(data) ==
  tryStore(Caught(parseAndApply(JSONparse(data), "vision stream"),
                  "Invalid websocket payload"), "Invalid websocket payload")

\* a faulty onclose: the disconnect is logged but no reconnect timer is armed
onclose_noTimer ==
  /\ connected' = FALSE
  /\ intervals' = IF keepaliveTimer # 0 THEN intervals \ {keepaliveTimer} ELSE intervals
  /\ IF ~teardown
     THEN AddLog("WebSocket disconnected. Reconnecting...", Undefined)
     ELSE UNCHANGED <<eventLog, random>>
  /\ UNCHANGED <<snapshot, teardown, socket, keepaliveTimer, reconnectTimer, timeouts, timerIds>>

\* a faulty onclose: the keepalive interval is not cleared
onclose_keepsInterval ==
  /\ connected' = FALSE
  /\ UNCHANGED intervals
  /\ IF ~teardown
     THEN /\ AddLog("WebSocket disconnected. Reconnecting...", Undefined)
          /\ reconnectTimer' = timerIds + 1
          /\ timeouts' = timeouts \cup {timerIds + 1}
          /\ timerIds' = timerIds + 1
     ELSE UNCHANGED <<eventLog, random, reconnectTimer, timeouts, timerIds>>
  /\ UNCHANGED <<snapshot, teardown, socket, keepaliveTimer>>

\* a faulty onclose: two reconnect timers are armed
onclose_twoTimers ==
  /\ connected' = FALSE
  /\ intervals' = IF keepaliveTimer # 0 THEN intervals \ {keepaliveTimer} ELSE intervals
  /\ IF ~teardown
     THEN /\ AddLog("WebSocket disconnected. Reconnecting...", Undefined)
          /\ reconnectTimer' = timerIds + 2
          /\ timeouts' = timeouts \cup {timerIds + 1, timerIds + 2}
          /\ timerIds' = timerIds + 2
     ELSE UNCHANGED <<eventLog, random, reconnectTimer, timeouts, timerIds>>
  /\ UNCHANGED <<snapshot, teardown, socket, keepaliveTimer>>

\* socket.onclose
onclose ==
  /\ connected' = FALSE
  /\ intervals' = IF keepaliveTimer # 0 THEN intervals \ {keepaliveTimer} ELSE intervals
  /\ IF ~teardown
     THEN /\ AddLog("WebSocket disconnected. Reconnecting...",
                                Undefined)
          /\ reconnectTimer' = timerIds + 1
          /\ timeouts' = timeouts \cup {timerIds + 1}
          /\ timerIds' = timerIds + 1
     ELSE UNCHANGED <<eventLog, random, reconnectTimer, timeouts, timerIds>>
  /\ UNCHANGED <<snapshot, teardown, socket, keepaliveTimer>>

\* a faulty onerror: it also opens a new connection itself
onerror_reconnects(ss) == sockets' = Append(closeSocket(ss, socket), NewWebSocket)

\* socket.onerror, run on the sockets as the browser left them
onerror(ss) == sockets' = closeSocket(ss, socket)

\* a faulty cleanup: the teardown flag is not set
EffectCleanup_noFlag ==
  /\ clearTimers
  /\ sockets' = closeSocket(sockets, socket)
  /\ UNCHANGED <<teardown, connected, socket, reconnectTimer, keepaliveTimer, timerIds>>

\* the effect's cleanup
EffectCleanup ==
  /\ teardown' = TRUE
  /\ clearTimers
  /\ sockets' = closeSocket(sockets, socket)
  /\ UNCHANGED <<connected, socket, reconnectTimer, keepaliveTimer, timerIds>>

Input == inputs' = inputs + 1

\* the browser opens socket i and fires its open event
WsOpen(i) ==
  /\ sockets[i].readyState = "CONNECTING"
  /\ sockets' = [sockets EXCEPT ![i].readyState = "OPEN"]
  /\ onopen
  /\ Input
  /\ UNCHANGED <<gate, mounted, now, delivered>>

\* a message arrives on socket i; a socket that is not OPEN delivers none
WsMessage(i, data) ==
  /\ sockets[i].readyState = "OPEN"
  /\ onmessage(data)
  /\ delivered' = [n |-> delivered.n + 1, data |-> data]
  /\ Input
  /\ UNCHANGED <<session, gate, mounted, now>>

\* the connection of socket i fails: it becomes CLOSED, its error event fires
\* and its close event follows
WsError(i) ==
  /\ sockets[i].readyState \in {"CONNECTING", "OPEN", "CLOSING"}
  /\ onerror([sockets EXCEPT ![i].readyState = "CLOSED", ![i].closeEvent = "pending"])
  /\ Input
  /\ UNCHANGED <<snapshot, eventLog, random, connected, teardown, socket, reconnectTimer,
                 keepaliveTimer, timeouts, intervals, timerIds, gate, mounted, now, delivered>>

\* the server closes socket i
WsServerClose(i) ==
  /\ sockets[i].readyState = "OPEN"
  /\ sockets' = [sockets EXCEPT ![i].readyState = "CLOSING", ![i].closeEvent = "pending"]
  /\ Input
  /\ UNCHANGED <<snapshot, eventLog, random, connected, teardown, socket, reconnectTimer,
                 keepaliveTimer, timeouts, intervals, timerIds, gate, mounted, now, delivered>>

\* the close event of socket i fires
WsClose(i) ==
  /\ sockets[i].closeEvent = "pending"
  /\ sockets' = [sockets EXCEPT ![i].readyState = "CLOSED", ![i].closeEvent = "fired"]
  /\ onclose
  /\ UNCHANGED <<gate, mounted, now, delivered, inputs>>

\* the reconnect timeout id fires
ReconnectFire(id) ==
  /\ id \in timeouts
  /\ timeouts' = timeouts \ {id}
  /\ connect
  /\ UNCHANGED <<snapshot, eventLog, random, connected, teardown, reconnectTimer, keepaliveTimer,
                 intervals, timerIds, gate, mounted, now, delivered, inputs>>

\* the keepalive interval id ticks
KeepaliveTick(id) ==
  /\ id \in intervals
  /\ keepalive
  /\ Input
  /\ UNCHANGED <<snapshot, eventLog, random, connected, teardown, socket, reconnectTimer,
                 keepaliveTimer, timeouts, intervals, timerIds, gate, mounted, now, delivered>>

\* the component unmounts: React runs the effect's cleanup
Unmount ==
  /\ mounted
  /\ mounted' = FALSE
  /\ EffectCleanup
  /\ Input
  /\ UNCHANGED <<snapshot, eventLog, random, gate, now, delivered>>

\* time passes
Tick ==
  /\ now' = now + 1
  /\ UNCHANGED <<snapshot, eventLog, random, session, gate, mounted, delivered>>

(***************************************************************************)
(* The hardware actions                                                    *)
(***************************************************************************)
\* response.ok
ok(response) == response.status >= 200 /\ response.status <= 299

\* the calls without the one at index c
without(cs, c) == SubSeq(cs, 1, c - 1) \o SubSeq(cs, c + 1, Len(cs))

\* finally { setActionBusy(null) }: the handler at index c is done
finally(c) ==
  /\ actionBusy' = Null
  /\ calls' = without(calls, c)

\* catch (error) { addLog(error instanceof Error ? error.message : fallback) }
catch(error, fallback) ==
  /\ AddLog(errorText(error, fallback), Undefined)
  /\ UNCHANGED snapshot

\* suspend the handler at index c at its next await
await(c, pc) ==
  /\ calls' = [calls EXCEPT ![c].pc = pc]
  /\ UNCHANGED <<actionBusy, eventLog, random, snapshot>>

\* a faulty handleAnalyzeNow: the request is sent without taking the lock
handleAnalyzeNow_noLock ==
  /\ calls' = Append(calls, [kind |-> "analyze", pc |-> "fetch", arg |-> Undefined])
  /\ UNCHANGED <<actionBusy, snapshot, eventLog, random>>

\* handleAnalyzeNow up to await fetch(...)
handleAnalyzeNow ==
  /\ actionBusy' = Str("analyze")
  /\ calls' = Append(calls, [kind |-> "analyze", pc |-> "fetch", arg |-> Undefined])
  /\ UNCHANGED <<snapshot, eventLog, random>>

\* handleAnalyzeNow from the settled fetch to await response.json()
handleAnalyzeNow_fetch(c, response) ==
  IF response.rejects
  THEN catch(Thrown("Failed to fetch"), "Analyze request failed") /\ finally(c)
  ELSE IF ~ok(response)
  THEN /\ catch(Thrown("Analyze failed (" \o ToString(response.status) \o ")"),
                "Analyze request failed")
       /\ finally(c)
  ELSE await(c, "json")

\* a faulty handleAnalyzeNow: the detections of the payload are not stored
handleAnalyzeNow_json_keepsDetections(c, body) ==
  /\ IF parseAndApply(JSONparse(body), "manual analyze").throws
     THEN catch(parseAndApply(JSONparse(body), "manual analyze"), "Analyze request failed")
     ELSE /\ voicePrompt' = parseAndApply(JSONparse(body), "manual analyze").value.voicePrompt
          /\ hapticIntensity' =
               parseAndApply(JSONparse(body), "manual analyze").value.hapticIntensity
          /\ UNCHANGED detections
          /\ AddLog(parseAndApply(JSONparse(body), "manual analyze").value.text,
                    parseAndApply(JSONparse(body), "manual analyze").value.ts)
  /\ finally(c)

\* handleAnalyzeNow from the settled response.json() to its end
handleAnalyzeNow_json(c, body) ==
  /\ tryStore(parseAndApply(JSONparse(body), "manual analyze"), "Analyze request failed")
  /\ finally(c)

\* a faulty handleHapticPulse: the token is made from the intensity as given
handleHapticPulse_rawToken(intensity) ==
  /\ actionBusy' = Str("haptic-" \o NumberToString(intensity))
  /\ calls' = Append(calls, [kind |-> "haptic", pc |-> "fetch",
                             arg |-> clamp(intensity, IntNum(0), IntNum(255))])
  /\ UNCHANGED <<snapshot, eventLog, random>>

\* handleHapticPulse(intensity) up to await fetch(...)
handleHapticPulse(intensity) ==
  /\ actionBusy' = Str("haptic-" \o NumberToString(clamp(intensity, IntNum(0), IntNum(255))))
  /\ calls' = Append(calls, [kind |-> "haptic", pc |-> "fetch",
                             arg |-> clamp(intensity, IntNum(0), IntNum(255))])
  /\ UNCHANGED <<snapshot, eventLog, random>>

\* handleHapticPulse from the settled fetch to await response.json()
handleHapticPulse_fetch(c, response) ==
  IF response.rejects
  THEN catch(Thrown("Failed to fetch"), "Haptic request failed") /\ finally(c)
  ELSE IF ~ok(response)
  THEN /\ catch(Thrown("Haptic send failed (" \o ToString(response.status) \o ")"),
                "Haptic request failed")
       /\ finally(c)
  ELSE await(c, "json")

\* payload.message || `Haptic pulse ${clamped}`
pulseText(message, clamped) ==
  IF Truthy(message) THEN message.s ELSE "Haptic pulse " \o NumberToString(clamped)

\* handleHapticPulse after response.json(), up to the finally:
\* setHapticIntensity(clamped) runs before payload.message is read
pulsed(parsed, clamped) ==
  IF parsed.throws
  THEN catch(parsed, "Haptic request failed")
  ELSE /\ hapticIntensity' = clamped
       /\ UNCHANGED <<voicePrompt, detections>>
       /\ IF parsed.value.k \in {"null", "undefined"}
          THEN AddLog(errorText(Thrown("Cannot read properties of null"),
                                "Haptic request failed"), Undefined)
          ELSE AddLog(pulseText(Get(parsed.value, "message"), clamped), Undefined)

\* handleHapticPulse from the settled response.json() to its end
handleHapticPulse_json(c, body) ==
  /\ pulsed(JSONparse(body), calls[c].arg)
  /\ finally(c)

\* a faulty handleSpeakPrompt: the blank prompt is not tested
handleSpeakPrompt_noBlankTest ==
  /\ actionBusy' = Str("speak")
  /\ calls' = Append(calls, [kind |-> "speak", pc |-> "fetch", arg |-> Str(trim(voicePrompt))])
  /\ UNCHANGED <<snapshot, eventLog, random>>

\* handleSpeakPrompt up to await fetch(...); nothing happens on a blank prompt
handleSpeakPrompt ==
  IF trim(voicePrompt) = ""
  THEN UNCHANGED <<actionBusy, calls, snapshot, eventLog, random>>
  ELSE /\ actionBusy' = Str("speak")
       /\ calls' = Append(calls, [kind |-> "speak", pc |-> "fetch",
                                  arg |-> Str(trim(voicePrompt))])
       /\ UNCHANGED <<snapshot, eventLog, random>>

\* a faulty handleSpeakPrompt: the 204 branch returns without the finally
handleSpeakPrompt_fetch_keepsLock(c, response) ==
  IF response.rejects
  THEN catch(Thrown("Failed to fetch"), "TTS request failed") /\ finally(c)
  ELSE IF response.status = 204
  THEN /\ AddLog("TTS returned no audio (check ElevenLabs key)", Undefined)
       /\ UNCHANGED <<snapshot, actionBusy>>
       /\ calls' = without(calls, c)
  ELSE IF ~ok(response)
  THEN /\ catch(Thrown("TTS failed (" \o ToString(response.status) \o ")"),
                "TTS request failed")
       /\ finally(c)
  ELSE await(c, "blob")

\* handleSpeakPrompt from the settled fetch to await response.blob()
handleSpeakPrompt_fetch(c, response) ==
  IF response.rejects
  THEN catch(Thrown("Failed to fetch"), "TTS request failed") /\ finally(c)
  ELSE IF response.status = 204
  THEN /\ AddLog("TTS returned no audio (check ElevenLabs key)", Undefined)
       /\ UNCHANGED snapshot
       /\ finally(c)
  ELSE IF ~ok(response)
  THEN /\ catch(Thrown("TTS failed (" \o ToString(response.status) \o ")"),
                "TTS request failed")
       /\ finally(c)
  ELSE await(c, "blob")

\* a faulty handleSpeakPrompt: 'TTS playback started' is logged before
\* audio.play() is awaited
handleSpeakPrompt_blob_logsEarly(c, rejects) ==
  IF rejects
  THEN catch(Thrown("Failed to read the body"), "TTS request failed") /\ finally(c)
  ELSE /\ AddLog("TTS playback started", Undefined)
       /\ calls' = [calls EXCEPT ![c].pc = "play"]
       /\ UNCHANGED <<actionBusy, snapshot>>

\* handleSpeakPrompt from the settled response.blob() to await audio.play()
handleSpeakPrompt_blob(c, rejects) ==
  IF rejects
  THEN catch(Thrown("Failed to read the body"), "TTS request failed") /\ finally(c)
  ELSE await(c, "play")

\* handleSpeakPrompt from the settled audio.play() to its end
handleSpeakPrompt_play(c, rejects) ==
  /\ IF rejects
     THEN catch(Thrown("play() failed"), "TTS request failed")
     ELSE AddLog("TTS playback started", Undefined) /\ UNCHANGED snapshot
  /\ finally(c)

\* a faulty button: it is never disabled
neverDisabled == FALSE

\* <Button disabled={actionBusy !== null}>
disabled == actionBusy # Null

\* a click on a button: a disabled button dispatches no onClick
Click(handler) ==
  /\ mounted
  /\ Input
  /\ IF disabled THEN UNCHANGED <<gate, snapshot, eventLog, random>> ELSE handler
  /\ UNCHANGED <<session, mounted, now, delivered>>

ClickAnalyzeNow == Click(handleAnalyzeNow)
ClickSpeakPrompt == Click(handleSpeakPrompt)
ClickPulse120 == Click(handleHapticPulse(IntNum(120)))
ClickMaxAlert == Click(handleHapticPulse(IntNum(220)))

\* the promise the handler at index c awaits settles
Suspended(c, kind, pc) ==
  /\ c \in 1..Len(calls)
  /\ calls[c].kind = kind
  /\ calls[c].pc = pc

Resume(c, kind, pc, continuation) ==
  /\ Suspended(c, kind, pc)
  /\ continuation
  /\ UNCHANGED <<session, mounted, now, delivered, inputs>>

(***************************************************************************)
(* Inputs                                                                  *)
(***************************************************************************)
Obj(fields) == [k |-> "object"] @@ fields
IntArr(a) == Arr([i \in DOMAIN a |-> IntNum(a[i])])
Json(v) == [json |-> TRUE, value |-> v]
NotJson == [json |-> FALSE]

\* {"voice_prompt":" ","haptic_intensity":999,"detections":[{"label":"Box","box":[10,10,5,5]}]}
ScenarioPayload ==
  Obj([voice_prompt |-> Str(" "), haptic_intensity |-> IntNum(999),
       detections |-> Arr(<<Obj([label |-> Str("Box"), box |-> IntArr(<<10, 10, 5, 5>>)])>>)])

\* {"voice_prompt":" Stairs ahead ","haptic_intensity":119.5,"ts":5,
\*  "detections":[{"label":"Chair","box":[100,200,300,400]}]}
StairsPayload ==
  Obj([voice_prompt |-> Str(" Stairs ahead "), haptic_intensity |-> Num(119, 5),
       ts |-> IntNum(5),
       detections |-> Arr(<<Obj([label |-> Str("Chair"), box |-> IntArr(<<100, 200, 300, 400>>)])>>)])

StreamMessages == {Json(ScenarioPayload), Json(StairsPayload), NotJson}

Response(status) == [rejects |-> FALSE, status |-> status]
Rejected == [rejects |-> TRUE]
Responses == {Rejected, Response(200), Response(204), Response(500)}

AnalyzeBodies == {Json(StairsPayload), Json(Null), NotJson}
HapticBodies == {Json(Obj([success |-> Bool(TRUE), message |-> Str("Haptic sent")])),
                 Json(Obj([success |-> Bool(TRUE)])), Json(Null), NotJson}

(***************************************************************************)
(* The dashboard                                                           *)
(***************************************************************************)
\* the component is mounted and its effect has run connect() once
Init ==
  /\ connected = FALSE
  /\ voicePrompt = "Waiting for analysis"
  /\ hapticIntensity = IntNum(0)
  /\ detections = <<>>
  /\ eventLog = <<>>
  /\ actionBusy = Null
  /\ teardown = FALSE
  /\ socket = 1
  /\ reconnectTimer = 0
  /\ keepaliveTimer = 0
  /\ sockets = <<NewWebSocket>>
  /\ timeouts = {}
  /\ intervals = {}
  /\ timerIds = 0
  /\ calls = <<>>
  /\ mounted = TRUE
  /\ now = 0
  /\ inputs = 0
  /\ random \in RandomStreams
  /\ delivered = [n |-> 0, data |-> NotJson]

Budget == inputs < MaxInputs

Open == Budget /\ \E i \in 1..Len(sockets) : WsOpen(i)
Message ==
  Budget /\ \E i \in 1..Len(sockets), data \in StreamMessages :
              WsMessage(i, data)
Fail == Budget /\ \E i \in 1..Len(sockets) : WsError(i)
ServerClose == Budget /\ \E i \in 1..Len(sockets) : WsServerClose(i)
Close == \E i \in 1..Len(sockets) : WsClose(i)
Reconnect == \E id \in timeouts : ReconnectFire(id)
Keepalive == Budget /\ \E id \in intervals : KeepaliveTick(id)
Teardown == Budget /\ Unmount
Clock == Budget /\ Tick /\ Input
AnalyzeNow == Budget /\ ClickAnalyzeNow
SpeakPrompt == Budget /\ ClickSpeakPrompt
Pulse120 == Budget /\ ClickPulse120
MaxAlert == Budget /\ ClickMaxAlert
AnalyzeFetched ==
  \E c \in 1..Len(calls), response \in Responses :
    Resume(c, "analyze", "fetch", handleAnalyzeNow_fetch(c, response))
AnalyzeParsed ==
  \E c \in 1..Len(calls), body \in AnalyzeBodies :
    Resume(c, "analyze", "json", handleAnalyzeNow_json(c, body))
HapticFetched ==
  \E c \in 1..Len(calls), response \in Responses :
    Resume(c, "haptic", "fetch", handleHapticPulse_fetch(c, response))
HapticParsed ==
  \E c \in 1..Len(calls), body \in HapticBodies :
    Resume(c, "haptic", "json", handleHapticPulse_json(c, body))
SpeakFetched ==
  \E c \in 1..Len(calls), response \in Responses :
    Resume(c, "speak", "fetch", handleSpeakPrompt_fetch(c, response))
SpeakBlob ==
  \E c \in 1..Len(calls), rejects \in BOOLEAN :
    Resume(c, "speak", "blob", handleSpeakPrompt_blob(c, rejects))
SpeakPlay ==
  \E c \in 1..Len(calls), rejects \in BOOLEAN :
    Resume(c, "speak", "play", handleSpeakPrompt_play(c, rejects))

Settle ==
  \/ AnalyzeFetched \/ AnalyzeParsed \/ HapticFetched \/ HapticParsed
  \/ SpeakFetched \/ SpeakBlob \/ SpeakPlay

Next ==
  \/ Open \/ Message \/ Fail \/ ServerClose \/ Close \/ Reconnect \/ Keepalive
  \/ Teardown \/ Clock
  \/ AnalyzeNow \/ SpeakPrompt \/ Pulse120 \/ MaxAlert
  \/ AnalyzeFetched \/ AnalyzeParsed \/ HapticFetched \/ HapticParsed
  \/ SpeakFetched \/ SpeakBlob \/ SpeakPlay

Spec == Init /\ [][Next]_vars

\* the action handlers' promises settle and armed timers fire
FairSpec == Spec /\ WF_vars(Settle) /\ WF_vars(Reconnect)

(***************************************************************************)
(* The normalizer under stream messages of every shape                     *)
(***************************************************************************)
EmptyObj == [k |-> "object"]

HapticMessage(h) == Json(Obj([haptic_intensity |-> h]))
VoiceMessage(v) == Json(Obj([voice_prompt |-> v]))
ListMessage(list) == Json(Obj([detections |-> Arr(list)]))
BoxMessage(q) == Json(Obj([detections |-> Arr(<<Obj([box |-> Arr(q)])>>)]))

HapticValues ==
  {IntNum(300), IntNum(-10), IntNum(0), IntNum(128), IntNum(255), Num(119, 5), Num(-1, 5),
   Null, Str("abc"), Str("42"), Bool(TRUE), EmptyObj}

VoiceValues == {Str(" "), Str(""), Str(" Stairs ahead "), Str("Door"), Null, IntNum(5)}

ChairDet == Obj([label |-> Str("Chair"), box |-> IntArr(<<100, 200, 300, 400>>)])
UnlabelledDet == Obj([box |-> IntArr(<<0, 0, 10, 10>>)])
NoBoxDet == Obj([label |-> Str("Chair")])
ShortBoxDet == Obj([label |-> Str("Chair"), box |-> IntArr(<<1, 2, 3>>)])
TextBoxDet ==
  Obj([label |-> Str("Chair"), box |-> Arr(<<Str("a"), IntNum(1), IntNum(2), IntNum(3)>>)])
DegenerateDet == Obj([label |-> Str("Box"), box |-> IntArr(<<10, 10, 5, 5>>)])
NullDet == Null
StringBoxDet == Obj([label |-> Str("Chair"), box |-> Str("abcd")])
NumericLabelDet == Obj([label |-> IntNum(7), box |-> IntArr(<<100, 200, 300, 400>>)])

BoxedDets ==
  {ChairDet, UnlabelledDet, NoBoxDet, ShortBoxDet, TextBoxDet, DegenerateDet, NullDet,
   StringBoxDet}
Dets == BoxedDets \cup {NumericLabelDet}

ListsOf(elements) ==
  {<<>>} \cup {<<a>> : a \in elements} \cup {<<a, b>> : a \in elements, b \in elements}

\* -5, 10.5, 1000 and 2000 as the low and the high edges of a box
LowEdges == {IntNum(-5), Num(10, 5), IntNum(1000)}
HighEdges == {Num(10, 5), IntNum(1000), IntNum(2000)}
BoxQuads ==
  {<<ymin, xmin, ymax, xmax>> :
     ymin \in LowEdges, xmin \in LowEdges, ymax \in HighEdges, xmax \in HighEdges}

NormMessages ==
  {HapticMessage(h) : h \in HapticValues}
    \cup {VoiceMessage(v) : v \in VoiceValues}
    \cup {ListMessage(list) : list \in ListsOf(Dets)}
    \cup {BoxMessage(q) : q \in BoxQuads}
    \cup {NotJson, Json(Null), Json(EmptyObj), Json(IntNum(5)),
          Json(ScenarioPayload), Json(StairsPayload)}

NormOpen == inputs = 0 /\ WsOpen(1)
NormMessage ==
  inputs \in 1..MaxNormInputs /\ \E data \in NormMessages : WsMessage(1, data)

NextNorm == NormOpen \/ NormMessage

SpecNorm == Init /\ [][NextNorm]_vars

(***************************************************************************)
(* The event log under a long run of stream messages, the n-th carrying    *)
(* ts = n                                                                  *)
(***************************************************************************)
LogOpen == inputs = 0 /\ WsOpen(1)
LogMessage ==
  /\ inputs \in 1..(MAX_LOG_ENTRIES + MaxExtraAppends - 1)
  /\ WsMessage(1, Json(Obj([ts |-> IntNum(inputs)])))
LogClock == now < MaxLogClock /\ Tick /\ UNCHANGED inputs

NextLog == LogOpen \/ LogMessage \/ LogClock

SpecLog == Init /\ [][NextLog]_vars

(***************************************************************************)
(* Properties                                                              *)
(***************************************************************************)
\* this step is the message event of the stream with event.data = m
Received(m) == delivered'.n = delivered.n + 1 /\ delivered'.data = m

\* this step appends exactly one entry, with this text, to the event log
Logged(text) ==
  eventLog' # <<>> /\ eventLog'[1].text = text /\ Tail(eventLog') = eventLog

\* C1: at most one action request is outstanding, and a click on any of the
\* action buttons while an action is in flight sends no request and leaves
\* the lock token as it is.
C1_SingleFlightGate ==
  [][/\ Len(calls') <= 1
     /\ (calls # <<>> /\ (AnalyzeNow \/ SpeakPrompt \/ Pulse120 \/ MaxAlert))
          => (calls' = calls /\ actionBusy' = actionBusy)]_vars

\* two clicks and nothing else have happened: the first one started an action
\* that still awaits its fetch, the second one was made while it was in flight
C1_ClickWhileBusy ==
  /\ inputs = 2 /\ now = 0 /\ mounted
  /\ sockets = <<NewWebSocket>>
  /\ Len(calls) = 1 /\ calls[1].pc = "fetch"
  /\ eventLog = <<>>

\* C2: whenever an action handler ends, by any outcome, actionBusy is null,
\* and when request settlement is fair a taken lock is always released.
C2_LockReleased ==
  /\ [][(Len(calls') < Len(calls) \/ calls' = <<>>) => actionBusy' = Null]_vars
  /\ (actionBusy # Null ~> actionBusy = Null)

\* the speak action ended on a 204 response and the lock is free again
C2_ReleasedAfterNoContent ==
  /\ eventLog # <<>>
  /\ eventLog[1].text = "TTS returned no audio (check ElevenLabs key)"
  /\ actionBusy = Null
  /\ calls = <<>>

\* this step is the close event of a socket
CloseFires ==
  \E i \in 1..Len(sockets) :
    sockets[i].closeEvent = "pending" /\ sockets'[i].closeEvent = "fired"

\* this step takes the armed reconnect timer away
TimerGone == timeouts # {} /\ timeouts' = {}

\* C3 (as the code has it): a close event that finds teardown false arms one
\* reconnect timer and opens no connection itself; at most one timer is armed
\* at a time; a connection is only ever opened by the timer firing, one per
\* timer; the timer either fires and opens one connection or is cancelled by
\* teardown, and then no connection follows; an armed timer does not stay
\* armed for ever.
C3_OneReconnectUnlessTeardown ==
  /\ [][/\ Cardinality(timeouts') <= 1
        /\ (CloseFires /\ ~teardown)
             => /\ Cardinality(timeouts') = Cardinality(timeouts) + 1
                /\ Len(sockets') = Len(sockets)
        /\ Len(sockets') # Len(sockets)
             => (Len(sockets') = Len(sockets) + 1 /\ TimerGone)
        /\ TimerGone
             => \/ Len(sockets') = Len(sockets) + 1
                \/ (~teardown /\ teardown' /\ Len(sockets') = Len(sockets))]_vars
  /\ (timeouts # {} ~> timeouts = {})

\* the first socket closed, its reconnect timer fired and opened the second
C3_Reconnected ==
  /\ ~teardown
  /\ Len(sockets) = 2 /\ socket = 2
  /\ sockets[1].closeEvent = "fired"
  /\ timerIds = 1 /\ timeouts = {}

\* C3 (as stated): the reconnect timer armed by a close always leads to one
\* new connection, never to none.
C3_TimerAlwaysConnects ==
  [][TimerGone => Len(sockets') = Len(sockets) + 1]_vars

\* C4: once the component has unmounted (teardown was requested) no WebSocket
\* is created any more, whatever arrives afterwards.
C4_NoConnectionAfterTeardown ==
  [][(teardown \/ ~mounted) => Len(sockets') = Len(sockets)]_vars

\* teardown came while the socket was open and the close event of that
\* socket was delivered afterwards: nothing but the connect was logged
C4_LateClose ==
  /\ ~mounted /\ teardown
  /\ Len(sockets) = 1 /\ sockets[1].closeEvent = "fired"
  /\ Len(eventLog) = 1 /\ eventLog[1].text = "WebSocket connected"

\* stream messages that do not decode or make the normalizer throw
InvalidMessages ==
  {NotJson, Json(Null), VoiceMessage(IntNum(5))}
    \cup {ListMessage(list) : list \in {l \in ListsOf(Dets) :
            \E i \in 1..Len(l) : l[i] \in {NullDet, StringBoxDet, NumericLabelDet}}}

\* C5: a stream message that is no JSON, or that makes the normalizer throw,
\* leaves voicePrompt, hapticIntensity and detections as they were and puts
\* exactly one 'Invalid websocket payload' entry on the event log.
C5_InvalidLeavesSnapshot ==
  [][\A m \in InvalidMessages :
       Received(m) => (snapshot' = snapshot /\ Logged("Invalid websocket payload"))]_vars

\* a message that is no JSON arrived after the stairs payload had been stored
C5_InvalidAfterValid ==
  /\ delivered = [n |-> 2, data |-> NotJson]
  /\ voicePrompt = "Stairs ahead"
  /\ hapticIntensity = IntNum(120)
  /\ Len(detections) = 1
  /\ Len(eventLog) = 3
  /\ eventLog[1].text = "Invalid websocket payload"

Min(a, b) == IF a < b THEN a ELSE b

\* C6: the event log never holds more than MAX_LOG_ENTRIES entries; the entry
\* of a message is put first and the entries before it follow in their order,
\* the last one dropped when the log was full; from MAX_LOG_ENTRIES + 1
\* appends on the log is exactly the MAX_LOG_ENTRIES most recent entries,
\* newest first. (The first append is the connect entry, append n + 1 is the
\* message with ts = n, shown as time n * 1000.)
C6_LogBoundedNewestFirst ==
  [][/\ Len(eventLog') <= MAX_LOG_ENTRIES
     /\ delivered'.n = delivered.n + 1
          => /\ eventLog'[1].time = ToString(inputs * 1000)
             /\ Tail(eventLog') = SubSeq(eventLog, 1, Min(Len(eventLog), MAX_LOG_ENTRIES - 1))
     /\ inputs' >= MAX_LOG_ENTRIES + 1
          => /\ Len(eventLog') = MAX_LOG_ENTRIES
             /\ \A i \in 1..MAX_LOG_ENTRIES :
                  eventLog'[i].time = ToString((inputs' - i) * 1000)]_vars

\* exactly MAX_LOG_ENTRIES + 1 appends: the connect entry is gone and the
\* message with ts = 1 is the last entry
C6_OldestEvicted ==
  /\ inputs = MAX_LOG_ENTRIES + 1
  /\ Len(eventLog) = MAX_LOG_ENTRIES
  /\ eventLog[MAX_LOG_ENTRIES].time = "1000"
  /\ eventLog[1].time = "80000"

\* what haptic_intensity is to become: the rounded value clamped to 0..255,
\* and 0 for null and for what is no number
ExpectedHaptic(h) ==
  CASE h = IntNum(300) -> 255
    [] h = IntNum(-10) -> 0
    [] h = IntNum(0) -> 0
    [] h = IntNum(128) -> 128
    [] h = IntNum(255) -> 255
    [] h = Num(119, 5) -> 120
    [] h = Num(-1, 5) -> 0
    [] h = Null -> 0
    [] h = Str("abc") -> 0
    [] h = EmptyObj -> 0

\* C7 (as stated): the stored hapticIntensity is always an integer in 0..255;
\* 300 gives 255, -10 gives 0, an absent, null or non-numeric haptic_intensity
\* gives 0.
C7_HapticIsByte ==
  [][/\ IsInteger(hapticIntensity') /\ hapticIntensity'.int \in 0..255
     /\ Received(Json(EmptyObj)) => hapticIntensity' = IntNum(0)
     /\ \A h \in HapticValues \ {Str("42"), Bool(TRUE)} :
          Received(HapticMessage(h)) => hapticIntensity' = IntNum(ExpectedHaptic(h))]_vars

\* -5 and 2000 clamped, 10.5 rounded
ExpectedEdge(c) ==
  CASE c = IntNum(-5) -> 0
    [] c = Num(10, 5) -> 11
    [] c = IntNum(1000) -> 1000
    [] c = IntNum(2000) -> 1000

ExpectedBox(ymin, xmin, ymax, xmax) ==
  IF ymax > ymin /\ xmax > xmin
  THEN <<[label |-> "obstacle",
          box |-> <<IntNum(ymin), IntNum(xmin), IntNum(ymax), IntNum(xmax)>>]>>
  ELSE <<>>

\* every stored box is four integers in 0..1000 with ymax > ymin and xmax > xmin
BoxesWellFormed ==
  \A i \in 1..Len(detections) :
    /\ \A j \in 1..4 : IsInteger(detections[i].box[j]) /\ detections[i].box[j].int \in 0..1000
    /\ detections[i].box[3].int > detections[i].box[1].int
    /\ detections[i].box[4].int > detections[i].box[2].int

\* C8: a box of four numbers is stored with every coordinate rounded and
\* clamped to 0..1000 if, after the clamping, ymax > ymin and xmax > xmin, and
\* is dropped otherwise; every stored box is well-formed.
C8_BoxRoundedClampedChecked ==
  [][/\ BoxesWellFormed'
     /\ \A q \in BoxQuads :
          Received(BoxMessage(q))
            => detections' = ExpectedBox(ExpectedEdge(q[1]), ExpectedEdge(q[2]),
                                         ExpectedEdge(q[3]), ExpectedEdge(q[4]))]_vars

\* the box [-5, -5, 10.5, 2000] was stored as [0, 0, 11, 1000]
C8_ClampedBoxStored ==
  /\ delivered.n > 0
  /\ delivered.data = BoxMessage(<<IntNum(-5), IntNum(-5), Num(10, 5), IntNum(2000)>>)
  /\ detections = ExpectedBox(0, 0, 11, 1000)

\* what one element of the list contributes, whatever its neighbours are
ExpectedDet(det) ==
  CASE det = ChairDet
         -> <<[label |-> "chair", box |-> <<IntNum(100), IntNum(200), IntNum(300), IntNum(400)>>]>>
    [] det = UnlabelledDet
         -> <<[label |-> "obstacle", box |-> <<IntNum(0), IntNum(0), IntNum(10), IntNum(10)>>]>>
    [] OTHER -> <<>>

RECURSIVE ExpectedDets(_)
ExpectedDets(list) ==
  IF list = <<>> THEN <<>> ELSE ExpectedDet(Head(list)) \o ExpectedDets(Tail(list))

\* C9 (as stated): every element of a detections list is kept or dropped on
\* its own: an element with no box, with a box that has not four entries or
\* with a box that is no numbers is dropped, the other elements are kept, in
\* the order of the list.
C9_ElementsIndependent ==
  [][\A list \in ListsOf(BoxedDets) :
       Received(ListMessage(list)) => detections' = ExpectedDets(list)]_vars

StoredChair ==
  [label |-> "chair", box |-> <<IntNum(100), IntNum(200), IntNum(300), IntNum(400)>>]

\* messages that decode, with the snapshot and the summary they are to give
SummarisedMessages ==
  {Json(ScenarioPayload), Json(StairsPayload), Json(EmptyObj), VoiceMessage(Str("Door")),
   VoiceMessage(Str("")), VoiceMessage(Null), HapticMessage(IntNum(300))}

ExpectedSnapshot(m) ==
  CASE m = Json(ScenarioPayload) -> <<"Path is clear", IntNum(255), <<>>>>
    [] m = Json(StairsPayload) -> <<"Stairs ahead", IntNum(120), <<StoredChair>>>>
    [] m = Json(EmptyObj) -> <<"Path is clear", IntNum(0), <<>>>>
    [] m = VoiceMessage(Str("Door")) -> <<"Door", IntNum(0), <<>>>>
    [] m = VoiceMessage(Str("")) -> <<"Path is clear", IntNum(0), <<>>>>
    [] m = VoiceMessage(Null) -> <<"Path is clear", IntNum(0), <<>>>>
    [] m = HapticMessage(IntNum(300)) -> <<"Path is clear", IntNum(255), <<>>>>

ExpectedSummary(m) ==
  CASE m = Json(ScenarioPayload) -> "vision stream: Path is clear | haptic=255"
    [] m = Json(StairsPayload) -> "vision stream: Stairs ahead | haptic=120"
    [] m = Json(EmptyObj) -> "vision stream: Path is clear | haptic=0"
    [] m = VoiceMessage(Str("Door")) -> "vision stream: Door | haptic=0"
    [] m = VoiceMessage(Str("")) -> "vision stream: Path is clear | haptic=0"
    [] m = VoiceMessage(Null) -> "vision stream: Path is clear | haptic=0"
    [] m = HapticMessage(IntNum(300)) -> "vision stream: Path is clear | haptic=255"

\* C10: a stream message that decodes replaces voicePrompt (the trimmed
\* voice_prompt, 'Path is clear' when it is absent or blank), hapticIntensity
\* (the clamped value) and detections (the normalized list, nothing of the old
\* one kept) in one step and appends exactly one summary entry; the scenario
\* payload gives ('Path is clear', 255, []).
C10_MessageReplacesSnapshot ==
  [][\A m \in SummarisedMessages :
       Received(m) => (snapshot' = ExpectedSnapshot(m) /\ Logged(ExpectedSummary(m)))]_vars

\* the scenario payload arrived after the stairs payload: the chair is gone
C10_ScenarioAfterStairs ==
  /\ delivered = [n |-> 2, data |-> Json(ScenarioPayload)]
  /\ snapshot = <<"Path is clear", IntNum(255), <<>>>>
  /\ Len(eventLog) = 3
  /\ eventLog[1].text = "vision stream: Path is clear | haptic=255"
  /\ eventLog[2].text = "vision stream: Stairs ahead | haptic=120"

\* this step is a handler observing a failure: its fetch rejected or answered
\* 500, the body of an ok response is no JSON or is the JSON null, or the
\* audio could not be read or played
ActionFails ==
  \E c \in 1..Len(calls) :
    \/ \E response \in {Rejected, Response(500)} :
         \/ Resume(c, "analyze", "fetch", handleAnalyzeNow_fetch(c, response))
         \/ Resume(c, "haptic", "fetch", handleHapticPulse_fetch(c, response))
         \/ Resume(c, "speak", "fetch", handleSpeakPrompt_fetch(c, response))
    \/ \E body \in {NotJson, Json(Null)} :
         \/ Resume(c, "analyze", "json", handleAnalyzeNow_json(c, body))
         \/ Resume(c, "haptic", "json", handleHapticPulse_json(c, body))
    \/ Resume(c, "speak", "blob", handleSpeakPrompt_blob(c, TRUE))
    \/ Resume(c, "speak", "play", handleSpeakPrompt_play(c, TRUE))

\* C11 (as stated): a handler that observes a failure leaves voicePrompt,
\* hapticIntensity and detections as they were, appends exactly one event and
\* releases the lock, so that the buttons are enabled again.
C11_FailureIsLocal ==
  [][ActionFails
       => /\ snapshot' = snapshot
          /\ Tail(eventLog') = eventLog
          /\ actionBusy' = Null /\ calls' = <<>>]_vars

\* C12: once the cleanup has run no reconnect timer and no keepalive interval
\* is armed and every socket is closing or closed, and from then on no
\* socket is created and no ping is sent.
C12_TeardownCancelsAll ==
  [][teardown'
       => /\ timeouts' = {} /\ intervals' = {}
          /\ \A i \in 1..Len(sockets') : sockets'[i].readyState \in {"CLOSING", "CLOSED"}
          /\ teardown
               => /\ Len(sockets') = Len(sockets)
                  /\ \A i \in 1..Len(sockets) : sockets'[i].sent = sockets[i].sent]_vars

\* the cleanup ran while the socket was open and its keepalive interval armed
C12_TornDownWhileOpen ==
  /\ teardown /\ ~mounted /\ connected
  /\ sockets[1].readyState = "CLOSING"
  /\ keepaliveTimer = 1 /\ intervals = {} /\ timeouts = {}

\* C13: while teardown is not requested, the close event of the n-th socket,
\* whether that socket had opened or not, is followed by a newer socket (or
\* by teardown), for every n the run allows, when armed timers fire.
C13_ReconnectUntilTeardown ==
  \A n \in 1..(MaxInputs + 1) :
    (Len(sockets) = n /\ sockets[n].closeEvent = "fired" /\ ~teardown)
      ~> (teardown \/ Len(sockets) > n)

\* three sockets in a row failed before they opened and a fourth was created
C13_FourthAttempt ==
  /\ ~teardown /\ ~connected
  /\ Len(sockets) = 4
  /\ \A i \in 1..3 : sockets[i].closeEvent = "fired"
  /\ Len(eventLog) = 3
  /\ \A i \in 1..3 : eventLog[i].text = "WebSocket disconnected. Reconnecting..."

\* this step takes a socket from CONNECTING to OPEN
Opens ==
  \E i \in 1..Len(sockets) :
    sockets[i].readyState = "CONNECTING" /\ sockets'[i].readyState = "OPEN"

\* C14: a keepalive interval is armed exactly by the step that opens a socket,
\* and a ping is only ever sent, one at a time, on the current socket while
\* its readyState is OPEN.
C14_PingOnlyWhenOpen ==
  [][/\ (intervals' \ intervals # {}) <=> Opens
     /\ \A i \in 1..Len(sockets) :
          sockets'[i].sent # sockets[i].sent
            => /\ sockets[i].readyState = "OPEN" /\ i = socket
               /\ sockets'[i].sent = sockets[i].sent + 1]_vars

\* the socket opened and two keepalive ticks each sent a ping on it
C14_TwoPings ==
  /\ inputs = 3
  /\ sockets[1].readyState = "OPEN" /\ sockets[1].sent = 2
  /\ intervals = {keepaliveTimer}

\* C15 (as the code has it): every close event, of a socket that had opened
\* or not, sets connected to false and leaves no keepalive interval armed;
\* when teardown has not been requested it also appends one 'WebSocket
\* disconnected. Reconnecting...' entry and arms the reconnect timer; when
\* teardown has been requested it appends nothing and arms nothing.
C15_CloseTransition ==
  [][CloseFires
       => /\ connected' = FALSE
          /\ intervals' = {}
          /\ IF teardown
             THEN eventLog' = eventLog /\ timeouts' = timeouts
             ELSE /\ Logged("WebSocket disconnected. Reconnecting...")
                  /\ timeouts' = {reconnectTimer'} /\ reconnectTimer' \notin timeouts]_vars

\* the server closed the open socket and its close event fired: the interval
\* is gone, the entry is logged, the timer is armed
C15_ClosedByServer ==
  /\ ~teardown /\ ~connected
  /\ Len(sockets) = 1 /\ sockets[1].closeEvent = "fired" /\ sockets[1].sent = 0
  /\ intervals = {} /\ keepaliveTimer = 1 /\ timeouts = {2}
  /\ Len(eventLog) = 2
  /\ eventLog[1].text = "WebSocket disconnected. Reconnecting..."

\* C15 (as stated): every close event, teardown requested or not, appends one
\* 'disconnected, reconnecting' entry.
C15_EveryCloseLogged ==
  [][CloseFires => Logged("WebSocket disconnected. Reconnecting...")]_vars

\* this step is the error event of a socket: the socket fails, and its close
\* event is to follow
ErrorFires ==
  \E i \in 1..Len(sockets) :
    /\ sockets[i].readyState # "CLOSED"
    /\ sockets'[i].readyState = "CLOSED" /\ sockets'[i].closeEvent = "pending"

\* C16: the error event appends nothing, changes no snapshot field and not
\* the connected flag, arms and clears no timer and creates no socket; it
\* leaves the close event of the socket pending. A close event fires once
\* per socket, a reconnect timer is armed by a close event only, and a socket
\* is created by the timer firing only: error and close together are one
\* close transition and one reconnect.
C16_ErrorOnlyCloses ==
  [][/\ ErrorFires
          => /\ snapshot' = snapshot /\ eventLog' = eventLog /\ connected' = connected
             /\ timeouts' = timeouts /\ intervals' = intervals
             /\ Len(sockets') = Len(sockets)
     /\ \A i \in 1..Len(sockets) :
          sockets[i].closeEvent = "fired" => sockets'[i] = sockets[i]
     /\ timeouts' \ timeouts # {} => CloseFires
     /\ Len(sockets') # Len(sockets) => TimerGone]_vars

\* one event, an error of the connecting socket, then its close and the
\* reconnect: one entry, one timer used, one new socket
C16_ErrorThenReconnect ==
  /\ inputs = 1 /\ ~connected
  /\ Len(sockets) = 2 /\ sockets[1].closeEvent = "fired"
  /\ sockets[2] = NewWebSocket
  /\ timerIds = 1 /\ timeouts = {}
  /\ Len(eventLog) = 1

(***************************************************************************)
(* handleHapticPulse called with intensities of every kind                 *)
(***************************************************************************)
MaxPulseInputs == 3

\* 300, -10, 0, 120, 255 and 119.5
PulseIntensities == {IntNum(300), IntNum(-10), IntNum(0), IntNum(120), IntNum(255), Num(119, 5)}

PulseClick ==
  inputs < MaxPulseInputs /\ \E v \in PulseIntensities : Click(handleHapticPulse(v))

NextPulse == PulseClick \/ HapticFetched \/ HapticParsed

SpecPulse == Init /\ [][NextPulse]_vars

\* the intensity clamped to 0..255, and the token made of it
ExpectedPulse(v) ==
  CASE v = IntNum(300) -> IntNum(255)
    [] v = IntNum(-10) -> IntNum(0)
    [] v = IntNum(0) -> IntNum(0)
    [] v = IntNum(120) -> IntNum(120)
    [] v = IntNum(255) -> IntNum(255)
    [] v = Num(119, 5) -> Num(119, 5)

ExpectedToken(v) ==
  CASE v = IntNum(300) -> "haptic-255"
    [] v = IntNum(-10) -> "haptic-0"
    [] v = IntNum(0) -> "haptic-0"
    [] v = IntNum(120) -> "haptic-120"
    [] v = IntNum(255) -> "haptic-255"
    [] v = Num(119, 5) -> "haptic-119.5"

\* C17: handleHapticPulse(v) called while idle sets the token 'haptic-<v
\* clamped to 0..255>' and keeps it while its request is in flight; when the
\* response is ok and its body is a JSON object hapticIntensity becomes the
\* clamped v and voicePrompt and detections stay; when the handler has
\* ended, however it ended, actionBusy is null.
C17_HapticPulse ==
  [][/\ \A v \in PulseIntensities :
          (~disabled /\ Click(handleHapticPulse(v)))
            => actionBusy' = Str(ExpectedToken(v)) /\ calls'[1].arg = ExpectedPulse(v)
     /\ calls' # <<>>
          => \E v \in PulseIntensities :
               calls'[1].arg = ExpectedPulse(v) /\ actionBusy' = Str(ExpectedToken(v))
     /\ \A body \in {b \in HapticBodies : b.json /\ b.value # Null} :
          (\E c \in 1..Len(calls) :
             Resume(c, "haptic", "json", handleHapticPulse_json(c, body)))
            => /\ hapticIntensity' = calls[1].arg
               /\ voicePrompt' = voicePrompt /\ detections' = detections
     /\ (calls # <<>> /\ calls' = <<>>) => actionBusy' = Null]_vars

\* handleHapticPulse(300) succeeded: 255 is stored and the lock is free
C17_Pulse300Stored ==
  /\ inputs = 1
  /\ hapticIntensity = IntNum(255)
  /\ voicePrompt = "Waiting for analysis"
  /\ actionBusy = Null /\ calls = <<>>
  /\ eventLog # <<>> /\ eventLog[1].text = "Haptic pulse 255"

\* this step is handleSpeakPrompt resumed at pc with this continuation
SpeakResumes(pc, rejects) ==
  \E c \in 1..Len(calls) :
    IF pc = "blob" THEN Resume(c, "speak", "blob", handleSpeakPrompt_blob(c, rejects))
    ELSE Resume(c, "speak", "play", handleSpeakPrompt_play(c, rejects))

SpeakFetches(response) ==
  \E c \in 1..Len(calls) : Resume(c, "speak", "fetch", handleSpeakPrompt_fetch(c, response))

NoAudioText == "TTS returned no audio (check ElevenLabs key)"
PlaybackText == "TTS playback started"

\* C18: no step of handleSpeakPrompt changes voicePrompt, hapticIntensity or
\* detections; a 204 response appends exactly one 'TTS returned no audio'
\* entry; a rejected fetch, a 500 response and a failing blob() or play()
\* append exactly one entry that is neither that one nor 'TTS playback
\* started'; 'TTS playback started' is appended only by the step in which the
\* awaited audio.play() has resolved.
C18_SpeakKeepsSnapshot ==
  [][/\ (SpeakPrompt \/ SpeakFetched \/ SpeakBlob \/ SpeakPlay) => snapshot' = snapshot
     /\ SpeakFetches(Response(204)) => Logged(NoAudioText)
     /\ (SpeakFetches(Rejected) \/ SpeakFetches(Response(500))
           \/ SpeakResumes("blob", TRUE) \/ SpeakResumes("play", TRUE))
          => /\ eventLog' # <<>> /\ Tail(eventLog') = eventLog
             /\ eventLog'[1].text \notin {NoAudioText, PlaybackText}
     /\ (eventLog' # eventLog /\ eventLog'[1].text = PlaybackText)
          => /\ calls # <<>> /\ calls[1].kind = "speak" /\ calls[1].pc = "play"
             /\ calls' = <<>> /\ Tail(eventLog') = eventLog]_vars

\* the stairs prompt was spoken: playback started and the snapshot is the
\* one the stream had stored
C18_SpokenAfterStream ==
  /\ inputs = 3
  /\ snapshot = <<"Stairs ahead", IntNum(120), <<StoredChair>>>>
  /\ eventLog[1].text = PlaybackText
  /\ actionBusy = Null /\ calls = <<>>

(***************************************************************************)
(* handleSpeakPrompt as a function of the prompt it reads: the prompt is   *)
(* drawn from blank and non-blank texts. (The page itself never stores a   *)
(* blank prompt: see PromptNeverBlank.)                                    *)
(***************************************************************************)
MaxSpeakInputs == 3

BlankPrompts == {"", "  "}
SpeakPrompts == BlankPrompts \cup {" Door "}

InitSpeak ==
  /\ connected = FALSE
  /\ voicePrompt \in SpeakPrompts
  /\ hapticIntensity = IntNum(0)
  /\ detections = <<>>
  /\ eventLog = <<>>
  /\ actionBusy = Null
  /\ teardown = FALSE
  /\ socket = 1
  /\ reconnectTimer = 0
  /\ keepaliveTimer = 0
  /\ sockets = <<NewWebSocket>>
  /\ timeouts = {}
  /\ intervals = {}
  /\ timerIds = 0
  /\ calls = <<>>
  /\ mounted = TRUE
  /\ now = 0
  /\ inputs = 0
  /\ random \in RandomStreams
  /\ delivered = [n |-> 0, data |-> NotJson]

SpeakClick == inputs < MaxSpeakInputs /\ ClickSpeakPrompt

NextSpeak == SpeakClick \/ SpeakFetched \/ SpeakBlob \/ SpeakPlay

SpecSpeak == InitSpeak /\ [][NextSpeak]_vars

\* in the page the prompt is never blank: it starts as 'Waiting for analysis'
\* and applyPayload stores a trimmed text or 'Path is clear'
PromptNeverBlank == voicePrompt \notin BlankPrompts /\ trim(voicePrompt) # ""

\* C19: with a prompt that is empty or only spaces, a click on Speak Prompt
\* sends no request, leaves actionBusy as it is and appends no event.
C19_BlankPromptIsNoOp ==
  [][(voicePrompt \in BlankPrompts /\ ~disabled /\ ClickSpeakPrompt)
       => /\ calls' = calls /\ actionBusy' = actionBusy
          /\ eventLog' = eventLog /\ snapshot' = snapshot]_vars

\* Speak Prompt was clicked twice on a prompt of two spaces: nothing happened
C19_ClickedOnBlank ==
  /\ voicePrompt = "  "
  /\ inputs = 2
  /\ calls = <<>> /\ actionBusy = Null /\ eventLog = <<>>

(***************************************************************************)
(* The same payloads through the stream and through Analyze Now            *)
(***************************************************************************)
MaxSinkInputs == 2

SinkMessages ==
  {HapticMessage(h) : h \in HapticValues}
    \cup {VoiceMessage(v) : v \in VoiceValues}
    \cup {ListMessage(list) : list \in {<<>>, <<ChairDet>>, <<NoBoxDet, ChairDet>>,
                                        <<ChairDet, UnlabelledDet>>, <<UnlabelledDet, ChairDet>>,
                                        <<DegenerateDet>>, <<NullDet, ChairDet>>}}
    \cup {Json(EmptyObj), Json(IntNum(5)), Json(ScenarioPayload), Json(StairsPayload)}

SinkOpen == inputs = 0 /\ WsOpen(1)
SinkMessage ==
  inputs \in 1..MaxSinkInputs /\ \E data \in SinkMessages : WsMessage(1, data)
SinkAnalyze == inputs \in 1..MaxSinkInputs /\ ClickAnalyzeNow
SinkFetched ==
  \E c \in 1..Len(calls) :
    Resume(c, "analyze", "fetch", handleAnalyzeNow_fetch(c, Response(200)))
SinkParsed ==
  \E c \in 1..Len(calls), body \in SinkMessages :
    Resume(c, "analyze", "json", handleAnalyzeNow_json(c, body))

NextSink == SinkOpen \/ SinkMessage \/ SinkAnalyze \/ SinkFetched \/ SinkParsed

SpecSink == Init /\ [][NextSink]_vars

\* what the stream stores for the message m
StreamSink(m) == parseAndApply(JSONparse(m), "vision stream").value

StreamSnapshot(m) ==
  <<StreamSink(m).voicePrompt, StreamSink(m).hapticIntensity, StreamSink(m).detections>>

\* the summary without the name of its source
SummaryOf(m) ==
  StreamSink(m).voicePrompt \o " | haptic=" \o NumberToString(StreamSink(m).hapticIntensity)

\* this step is handleAnalyzeNow receiving the body m of an ok response
Analyzed(m) ==
  /\ calls # <<>> /\ calls[1].kind = "analyze" /\ calls[1].pc = "json" /\ calls' = <<>>
  /\ Resume(1, "analyze", "json", handleAnalyzeNow_json(1, m))

\* C20: for every payload that decodes, Analyze Now receiving it and the
\* stream delivering it store the same voicePrompt, hapticIntensity and
\* detections, whatever the state before; the appended entries differ in
\* their source, 'manual analyze' or 'vision stream', and in nothing else.
C20_SameSink ==
  [][\A m \in SinkMessages \ InvalidMessages :
       /\ Received(m)
            => snapshot' = StreamSnapshot(m) /\ Logged("vision stream: " \o SummaryOf(m))
       /\ Analyzed(m)
            => snapshot' = StreamSnapshot(m) /\ Logged("manual analyze: " \o SummaryOf(m))]_vars

\* Analyze Now received the scenario payload after the stream had stored the
\* stairs payload: the snapshot is the one the stream gives for the scenario
C20_AnalyzedAfterStream ==
  /\ delivered = [n |-> 1, data |-> Json(StairsPayload)]
  /\ snapshot = <<"Path is clear", IntNum(255), <<>>>>
  /\ Len(eventLog) = 3
  /\ eventLog[1].text = "manual analyze: Path is clear | haptic=255"
  /\ eventLog[2].text = "vision stream: Stairs ahead | haptic=120"
  /\ actionBusy = Null

\* this step ends a handler that had received the body of an ok response
BodyReceived(kind) ==
  /\ calls # <<>> /\ calls[1].kind = kind /\ calls[1].pc = "json"
  /\ Len(calls') < Len(calls)

\* this step is handleHapticPulse receiving a body that is JSON
PulseStored ==
  /\ BodyReceived("haptic")
  /\ \E body \in HapticBodies \ {NotJson} :
       Resume(1, "haptic", "json", handleHapticPulse_json(1, body))

\* C21: a stream message is applied at once whether or not an action is in
\* flight, and leaves the lock token and the outstanding request as they are;
\* an action result that arrives later overwrites the fields it applies (all
\* three for analyze, hapticIntensity alone for a pulse); a step of no writer
\* leaves the snapshot alone: each field holds what its last writer wrote.
C21_LatestWriteWins ==
  [][/\ \A m \in {Json(ScenarioPayload), Json(StairsPayload)} :
          Received(m) => /\ snapshot' = ExpectedSnapshot(m)
                         /\ actionBusy' = actionBusy
                         /\ calls' = calls
     /\ Received(NotJson) => (snapshot' = snapshot /\ actionBusy' = actionBusy /\ calls' = calls)
     /\ Analyzed(Json(StairsPayload)) => snapshot' = ExpectedSnapshot(Json(StairsPayload))
     /\ PulseStored
          => /\ hapticIntensity' =
                  IF actionBusy = Str("haptic-120") THEN IntNum(120) ELSE IntNum(220)
             /\ voicePrompt' = voicePrompt
             /\ detections' = detections
     /\ (delivered' = delivered /\ ~BodyReceived("analyze") /\ ~BodyReceived("haptic"))
          => snapshot' = snapshot]_vars

\* Max Alert was clicked and the stairs payload arrived on the stream; the
\* pulse was acknowledged after the message: hapticIntensity is the pulse's,
\* voicePrompt and detections are the message's
C21_PulseOverStream ==
  /\ delivered = [n |-> 1, data |-> Json(StairsPayload)]
  /\ snapshot = <<"Stairs ahead", IntNum(220), <<StoredChair>>>>
  /\ Len(eventLog) = 3
  /\ eventLog[1].text = "Haptic sent"
  /\ eventLog[2].text = "vision stream: Stairs ahead | haptic=120"
  /\ actionBusy = Null /\ calls = <<>>

\* C22 (as stated): no two entries of the event log have the same id, also
\* when both were created at the same clock instant.
C22_IdsUnique ==
  \A i, j \in 1..Len(eventLog) : i # j => eventLog[i].id # eventLog[j].id

\* the token the handler of this call has set
TokenOf(call) ==
  CASE call.kind = "analyze" -> Str("analyze")
    [] call.kind = "speak" -> Str("speak")
    [] call.kind = "haptic" /\ call.arg = IntNum(120) -> Str("haptic-120")
    [] call.kind = "haptic" /\ call.arg = IntNum(220) -> Str("haptic-220")

\* C23: actionBusy is null exactly when no action handler is suspended on a
\* request; when one is, it is the only one and actionBusy is its token, so
\* that a finally never clears the token of another action.
C23_BusyAccurate ==
  /\ Len(calls) <= 1
  /\ (actionBusy = Null) <=> (calls = <<>>)
  /\ calls # <<>> => actionBusy = TokenOf(calls[1])

\* a pulse has been acknowledged and its finally has run; Analyze Now was
\* clicked after it and awaits its response under its own token
C23_AnalyzeAfterPulse ==
  /\ Len(eventLog) = 1 /\ eventLog[1].text = "Haptic sent"
  /\ Len(calls) = 1 /\ calls[1].kind = "analyze" /\ calls[1].pc = "json"
  /\ actionBusy = Str("analyze")

\* the sockets that are not CLOSED
Transports(ss) == {i \in 1..Len(ss) : ss[i].readyState # "CLOSED"}

\* at most one socket is not CLOSED, and it is the current one; at most one
\* reconnect timer is pending, and then no socket is CONNECTING or OPEN
OneTransport ==
  /\ Cardinality(Transports(sockets)) <= 1
  /\ Transports(sockets) \subseteq {socket}
  /\ Cardinality(timeouts) <= 1
  /\ timeouts # {} => \A i \in 1..Len(sockets) : sockets[i].readyState = "CLOSED"

\* C24: at most one transport exists at any time, a pending reconnect timer
\* never coexists with a transport that is connecting or open, and after the
\* first connect() a socket is only made by the reconnect timer that the
\* close event of the previous socket has armed.
C24_OneTransport ==
  [][/\ OneTransport /\ OneTransport'
     /\ Len(sockets') # Len(sockets)
          => /\ Len(sockets') = Len(sockets) + 1
             /\ sockets[Len(sockets)].closeEvent = "fired"
             /\ timeouts = {reconnectTimer}
             /\ timeouts' = {}]_vars

\* the first transport was closed by the server after it had opened, and the
\* second one, made by the reconnect timer, is open: one transport, no timer
C24_SecondTransportOpen ==
  /\ Len(sockets) = 2 /\ socket = 2
  /\ sockets[1].readyState = "CLOSED" /\ sockets[2].readyState = "OPEN"
  /\ timeouts = {} /\ intervals = {keepaliveTimer}
  /\ connected /\ ~teardown
  /\ Len(eventLog) = 3

\* the browser is between setting readyState to CLOSED and firing the close
\* event, which it does in one task: no other callback sees this state
ClosedUnannounced ==
  sockets[socket].readyState = "CLOSED" /\ sockets[socket].closeEvent = "pending"

\* C25 (as the code has it): while teardown has not been requested, connected
\* is true whenever the current socket is OPEN and stays true until the close
\* event, so also while the socket is CLOSING; exactly while connected is true
\* one keepalive interval is armed, the one keepaliveTimer names; connected is
\* false while the socket is CONNECTING and while a reconnect timer is
\* pending; two keepalive intervals are never armed at once.
C25_ConnectedFromOpenToClose ==
  /\ Cardinality(intervals) <= 1
  /\ ~teardown =>
       /\ sockets[socket].readyState = "OPEN" => connected
       /\ connected => /\ sockets[socket].readyState \in {"OPEN", "CLOSING"} \/ ClosedUnannounced
                       /\ intervals = {keepaliveTimer}
       /\ ~connected => intervals = {}
       /\ (sockets[socket].readyState = "CONNECTING" \/ timeouts # {}) => ~connected

\* the server has started to close the open transport and the close event has
\* not been delivered: connected is still true and the interval still armed
C25_ConnectedWhileClosing ==
  /\ ~teardown /\ connected
  /\ sockets[socket].readyState = "CLOSING" /\ sockets[socket].closeEvent = "pending"
  /\ intervals = {keepaliveTimer}

\* C25 (as stated): while teardown has not been requested, connected is true
\* exactly when the current transport is OPEN.
C25_ConnectedIffOpen ==
  (~teardown /\ ~ClosedUnannounced) => (connected <=> sockets[socket].readyState = "OPEN")

\* C26: voicePrompt is never empty after trimming, before and after every
\* step, so a click on Speak Prompt that the button accepts (no action is in
\* flight) always takes the lock and sends one request for the trimmed prompt.
C26_PromptNonEmpty ==
  [][/\ trim(voicePrompt) # "" /\ trim(voicePrompt') # ""
     /\ (SpeakPrompt /\ ~disabled)
          => /\ actionBusy' = Str("speak")
             /\ calls' = <<[kind |-> "speak", pc |-> "fetch", arg |-> Str(trim(voicePrompt))]>>]_vars

\* the scenario payload, whose voice_prompt is one space, has been stored as
\* 'Path is clear', and Speak Prompt, clicked after it, has sent that text
C26_SpokeFallback ==
  /\ delivered = [n |-> 1, data |-> Json(ScenarioPayload)]
  /\ voicePrompt = "Path is clear"
  /\ calls = <<[kind |-> "speak", pc |-> "fetch", arg |-> Str("Path is clear")]>>
  /\ actionBusy = Str("speak")

====
